---- MODULE Spec2Model ----
(***************************************************************************)
(* Toy Bloom filter (src/src/lib.rs): a Vec<u8> of 0/1 flags and three     *)
(* hash functions over u8 elements.                                        *)
(*                                                                         *)
(* The hash arithmetic `2 * element + 3` and `8 * element` is u8           *)
(* arithmetic: the cast to usize comes after it.  An overflow panics in a  *)
(* build with overflow checks (the dev and test profiles) and wraps to 8   *)
(* bits otherwise (the release profile); the model keeps both outcomes in  *)
(* overflowChecks.  A panic unwinds out of the call and leaves the Set     *)
(* with the writes made before it; a caller that caught the unwind can     *)
(* keep calling.                                                           *)
(***************************************************************************)
EXTENDS Integers, Sequences, FiniteSets, TLC

\* ---- bounds -------------------------------------------------------------
MaxAdds == 3
MaxSize == 5

\* ---- program constants --------------------------------------------------
U8Max == 255
U8Modulus == 256
DefaultSize == 256

\* ---- input sets ---------------------------------------------------------
\* 1..4: the 256-flag tests; 9, 11, 16: the false-positive test;
\* 32: least element with 8x > 255; 127: least with 2x+3 > 255; 255: u8 max.
Elements == {1, 2, 3, 4, 9, 11, 16, 32, 127, 255}
Sizes == (0..MaxSize) \cup {DefaultSize}
Variants == {"H1", "H2", "H3"}

VARIABLES
    overflowChecks, \* build profile: TRUE = overflow panics, FALSE = wraps
    constructed,    \* a Set value exists
    size,           \* the argument the Set was constructed with
    bits,           \* Set.bits; flag i of the Vec is bits[i + 1]
    added,          \* elements add was called with
    lastOp,         \* the last call made
    lastArg,        \* its argument
    lastResult,     \* its outcome
    repeated,       \* the last call was add(e) right after another add(e)
    hcall,          \* arguments of a direct Hash::hash call
    hret            \* its outcome

vars == <<overflowChecks, constructed, size, bits, added, lastOp, lastArg,
          lastResult, repeated, hcall, hret>>

\* ---- u8 arithmetic ------------------------------------------------------
Index(n) == [fault |-> "none", index |-> n]
Fault(f) == [fault |-> f, index |-> 0]

\* a u8 result v: in range, or overflowed (panic or wrap by build profile)
U8(v) ==
    IF v <= U8Max THEN Index(v)
    ELSE IF overflowChecks THEN Fault("overflow")
    ELSE Index(v % U8Modulus)

MulU8(a, b) == U8(a * b)

AddU8(a, b) == IF a.fault # "none" THEN a ELSE U8(a.index + b)

\* `x as usize % m`
RemUsize(a, m) ==
    IF a.fault # "none" THEN a
    ELSE IF m = 0 THEN Fault("rem_zero")
    ELSE Index(a.index % m)

\* ---- Hash::hash ---------------------------------------------------------
Hash(hash, element, m) ==
    CASE hash = "H1" -> RemUsize(Index(element), m)
      [] hash = "H2" -> RemUsize(AddU8(MulU8(2, element), 3), m)
      [] hash = "H3" -> RemUsize(MulU8(8, element), m)

\* the documented formulas: H1 = x mod M, H2 = (2x + 3) mod M, H3 = 8x mod M
HashFormula(hash, element, m) ==
    CASE hash = "H1" -> element % m
      [] hash = "H2" -> (2 * element + 3) % m
      [] hash = "H3" -> (8 * element) % m

\* ---- Set ----------------------------------------------------------------
Flag(b, i) == b[i + 1]

SetBitToggle(b, i) == [b EXCEPT ![i + 1] = 1 - @]

SetBitIncr(b, i) == [b EXCEPT ![i + 1] = @ + 1]

\* self.bits[i] = 1
SetBit(b, i) == [b EXCEPT ![i + 1] = 1]

Zeros(n) == [i \in 1..n |-> 0]

AddOutcomeSkipH3(b, element) ==
    LET m  == Len(b)
        i1 == Hash("H1", element, m)
        i2 == Hash("H2", element, m)
    IN  IF i1.fault # "none" THEN [bits |-> b, result |-> i1.fault]
        ELSE IF i2.fault # "none"
             THEN [bits |-> SetBit(b, i1.index), result |-> i2.fault]
        ELSE [bits |-> SetBit(SetBit(b, i1.index), i2.index), result |-> "ok"]

\* the three statements of Set::add in order; a fault keeps earlier writes
AddOutcome(b, element) ==
    LET m  == Len(b)
        i1 == Hash("H1", element, m)
        b1 == SetBit(b, i1.index)
        i2 == Hash("H2", element, m)
        b2 == SetBit(b1, i2.index)
        i3 == Hash("H3", element, m)
        b3 == SetBit(b2, i3.index)
    IN  IF i1.fault # "none" THEN [bits |-> b, result |-> i1.fault]
        ELSE IF i2.fault # "none" THEN [bits |-> b1, result |-> i2.fault]
        ELSE IF i3.fault # "none" THEN [bits |-> b2, result |-> i3.fault]
        ELSE [bits |-> b3, result |-> "ok"]

\* the short-circuit conjunction of Set::query
QueryOutcome(b, element) ==
    LET m  == Len(b)
        i1 == Hash("H1", element, m)
        i2 == Hash("H2", element, m)
        i3 == Hash("H3", element, m)
    IN  IF i1.fault # "none" THEN i1.fault
        ELSE IF Flag(b, i1.index) # 1 THEN "false"
        ELSE IF i2.fault # "none" THEN i2.fault
        ELSE IF Flag(b, i2.index) # 1 THEN "false"
        ELSE IF i3.fault # "none" THEN i3.fault
        ELSE IF Flag(b, i3.index) # 1 THEN "false"
        ELSE "true"

NoCall == <<>>
NoRet == Fault("pending")

Init ==
    /\ overflowChecks \in BOOLEAN
    /\ constructed = FALSE
    /\ size = 0
    /\ bits = <<>>
    /\ added = {}
    /\ lastOp = "none"
    /\ lastArg = 0
    /\ lastResult = "none"
    /\ repeated = FALSE
    /\ hcall = NoCall
    /\ hret = NoRet

with_size(sz) ==
    /\ ~constructed
    /\ constructed' = TRUE
    /\ size' = sz
    /\ bits' = Zeros(sz)
    /\ lastOp' = "with_size"
    /\ lastArg' = sz
    /\ lastResult' = "ok"
    /\ UNCHANGED <<overflowChecks, added, repeated, hcall, hret>>

\* Set::new -> Default::default -> with_size(256)
new ==
    /\ ~constructed
    /\ constructed' = TRUE
    /\ size' = DefaultSize
    /\ bits' = Zeros(DefaultSize)
    /\ lastOp' = "new"
    /\ lastArg' = DefaultSize
    /\ lastResult' = "ok"
    /\ UNCHANGED <<overflowChecks, added, repeated, hcall, hret>>

add(element) ==
    /\ constructed
    /\ Cardinality(added \cup {element}) <= MaxAdds
    /\ LET out == AddOutcome(bits, element)
       IN  /\ bits' = out.bits
           /\ lastResult' = out.result
    /\ added' = added \cup {element}
    /\ repeated' = (lastOp = "add" /\ lastArg = element)
    /\ lastOp' = "add"
    /\ lastArg' = element
    /\ UNCHANGED <<overflowChecks, constructed, size, hcall, hret>>

queryWriting(element) ==
    /\ constructed
    /\ lastResult' = QueryOutcome(bits, element)
    /\ bits' = AddOutcome(bits, element).bits
    /\ lastOp' = "query"
    /\ lastArg' = element
    /\ repeated' = FALSE
    /\ UNCHANGED <<overflowChecks, constructed, size, added, hcall, hret>>

query(element) ==
    /\ constructed
    /\ lastResult' = QueryOutcome(bits, element)
    /\ lastOp' = "query"
    /\ lastArg' = element
    /\ repeated' = FALSE
    /\ UNCHANGED <<overflowChecks, constructed, size, bits, added, hcall, hret>>

Next ==
    \/ new
    \/ \E sz \in Sizes : with_size(sz)
    \/ \E element \in Elements : add(element)
    \/ \E element \in Elements : query(element)

Spec == Init /\ [][Next]_vars

\* ---- direct calls of the pure function Hash::hash -------------------------
InitHash ==
    /\ overflowChecks \in BOOLEAN
    /\ constructed = FALSE
    /\ size = 0
    /\ bits = <<>>
    /\ added = {}
    /\ lastOp = "none"
    /\ lastArg = 0
    /\ lastResult = "none"
    /\ repeated = FALSE
    /\ hcall \in [hash : Variants, element : 0..U8Max, m : Sizes]
    /\ hret = NoRet

hash_call ==
    /\ hret = NoRet
    /\ hret' = Hash(hcall.hash, hcall.element, hcall.m)
    /\ UNCHANGED <<overflowChecks, constructed, size, bits, added, lastOp,
                   lastArg, lastResult, repeated, hcall>>

NextHash == hash_call

SpecHash == InitHash /\ [][NextHash]_vars

\* ---- claims ---------------------------------------------------------------

\* C1: no false negatives: on a Set of size M >= 1, for every element add was
\* called with, query returns true in every later state.
C1_NoFalseNegatives ==
    (constructed /\ size >= 1) =>
        \A e \in added : QueryOutcome(bits, e) = "true"

\* C2: for every element and every modulus M >= 1, Hash::hash returns the
\* documented formula on the untruncated integers: e mod M, (2e+3) mod M,
\* 8e mod M.
C2_HashIsFormula ==
    (hret # NoRet /\ hcall.m >= 1) =>
        hret = Index(HashFormula(hcall.hash, hcall.element, hcall.m))

\* C3: add on a Set of size M >= 1 has no error outcome: no arithmetic fault,
\* every index in [0, M), and the three flags are set when it completes.
C3_AddNeverFaults ==
    (lastOp = "add" /\ size >= 1) =>
        /\ lastResult = "ok"
        /\ \A h \in Variants :
              LET i == Hash(h, lastArg, size)
              IN  /\ i.fault = "none"
                  /\ i.index \in 0..(size - 1)
                  /\ Flag(bits, i.index) = 1

\* C4: size 0 is rejected at construction: no constructed Set has size 0, and
\* no add or query call on a constructed Set faults.
C4_ZeroSizeRejected ==
    /\ constructed => size >= 1
    /\ lastOp \in {"add", "query"} => lastResult \in {"ok", "true", "false"}

\* C5: false positives are reachable: on a Set built with with_size(5), after
\* add(9) and add(11), query(16) returns true although 16 was never added.
C5_FalsePositive ==
    (lastOp = "query" /\ lastArg = 16 /\ size = 5 /\ added = {9, 11}) =>
        (lastResult = "true" /\ 16 \notin added)

C5_Witness ==
    /\ lastOp = "query" /\ lastArg = 16 /\ size = 5 /\ added = {9, 11}
    /\ lastResult = "true"

\* C6: on a Set of size M >= 1 the flag array is exactly the union of the
\* hash indices H1(e), H2(e), H3(e) of the added elements; every other flag is 0.
C6_BitsAreUnionOfIndices ==
    (constructed /\ size >= 1) =>
        /\ Len(bits) = size
        /\ \A i \in 0..(size - 1) :
              IF \E e \in added : \E h \in Variants : HashFormula(h, e, size) = i
              THEN Flag(bits, i) = 1
              ELSE Flag(bits, i) = 0

\* C7: on a Set of size M >= 1, query(e) returns true if and only if the flags
\* at H1(e), H2(e) and H3(e) are all 1, and false otherwise.
C7_QueryIffAllFlags ==
    (lastOp = "query" /\ size >= 1) =>
        /\ lastResult \in {"true", "false"}
        /\ lastResult = "true" <=>
              \A h \in Variants : Flag(bits, HashFormula(h, lastArg, size)) = 1

\* C8: add is idempotent: an add(e) call made right after an add(e) call
\* leaves the flag array as it was.
C8_AddIdempotent ==
    [][(lastOp' = "add" /\ repeated') => bits' = bits]_vars

C8_Witness ==
    /\ lastOp = "add" /\ repeated /\ lastResult = "ok" /\ size >= 2
    /\ Hash("H1", lastArg, size) = Hash("H2", lastArg, size)

\* C9: the flag array only grows: it keeps the length it was constructed with,
\* every flag is 0 or 1, and no step turns a 1 into a 0.
C9_OnlyGrows ==
    /\ [](constructed =>
            /\ Len(bits) = size
            /\ \A k \in 1..Len(bits) : bits[k] \in {0, 1})
    /\ [][constructed =>
            /\ Len(bits') = Len(bits)
            /\ \A k \in 1..Len(bits) : bits[k] = 1 => bits'[k] = 1]_vars

C9_Witness ==
    /\ lastOp = "add" /\ repeated /\ Cardinality(added) >= 2
    /\ \E k \in 1..Len(bits) : bits[k] = 1

\* C10: query is read-only: a query call leaves the whole flag array
\* unchanged, whatever it returns.
C10_QueryReadOnly ==
    [][lastOp' = "query" => bits' = bits]_vars

C10_Witness ==
    /\ lastOp = "query" /\ lastResult = "false" /\ added # {}
    /\ \E k \in 1..Len(bits) : bits[k] = 0
====
